---- MODULE Spec2Model ----
(***************************************************************************)
(* The bookmark/tag store of src/src/lib/storage.ts (class StorageManager) *)
(* over the chrome.storage.local key-value area: the persisted Document,   *)
(* each Store Manager's cache, its operations split at their awaits, and   *)
(* the onChanged change-propagation loop.                                  *)
(*                                                                         *)
(* A call of the key-value area and the continuation that runs when it     *)
(* resolves are one step: the area serves the calls of one process in the  *)
(* order they were issued and answers in that order.                       *)
(***************************************************************************)
EXTENDS Integers, Sequences, FiniteSets, TLC

\* ------------------------------------------------------------------ bounds
MaxOps == 4
MaxBookmarks == 2
MaxFail == 1
MaxPending == 2
MaxHandles == 3

\* ------------------------------------------------------------- tag names
\* A tag name is a sequence of characters. "x" and "y" stand for characters
\* without case (the starter tags of DEFAULT_TAGS are CJK words), "A"/"a"
\* for a letter and its lower case, " " for white space.
NX == <<"x">>
NY == <<"y">>
NXpad == <<"x", " ">>
NA == <<"A">>
Na == <<"a">>

\* String.prototype.toLowerCase, per character (letters A-Z; every other
\* character used here is its own lower case)
LowerOf ==
    "A" :> "a" @@ "B" :> "b" @@ "C" :> "c" @@ "D" :> "d" @@ "E" :> "e" @@
    "F" :> "f" @@ "G" :> "g" @@ "H" :> "h" @@ "I" :> "i" @@ "J" :> "j" @@
    "K" :> "k" @@ "L" :> "l" @@ "M" :> "m" @@ "N" :> "n" @@ "O" :> "o" @@
    "P" :> "p" @@ "Q" :> "q" @@ "R" :> "r" @@ "S" :> "s" @@ "T" :> "t" @@
    "U" :> "u" @@ "V" :> "v" @@ "W" :> "w" @@ "X" :> "x" @@ "Y" :> "y" @@
    "Z" :> "z"
ToLower(c) == IF c \in DOMAIN LowerOf THEN LowerOf[c] ELSE c

RECURSIVE TrimLeft(_)
TrimLeft(s) == IF s # <<>> /\ Head(s) = " " THEN TrimLeft(Tail(s)) ELSE s

RECURSIVE TrimRight(_)
TrimRight(s) ==
    IF s # <<>> /\ s[Len(s)] = " " THEN TrimRight(SubSeq(s, 1, Len(s) - 1)) ELSE s

\* tag.toLowerCase().trim()
normalizeTag(tag) == TrimRight(TrimLeft([n \in 1..Len(tag) |-> ToLower(tag[n])]))

\* The starter tags (the first two of the fifteen stand for all of them).
DEFAULT_TAGS == <<NX, NY>>

\* Array.prototype.includes
Includes(s, e) == \E n \in 1..Len(s) : s[n] = e

\* ------------------------------------------------- import: tag conflicts
\* str.toLowerCase()
toLowerCase(str) == [n \in 1..Len(str) |-> ToLower(str[n])]

Min3(a, b, c) == IF a <= b /\ a <= c THEN a ELSE IF b <= c THEN b ELSE c

\* one row of the matrix of levenshteinDistance: acc holds matrix[j][0..i-1],
\* prev is matrix[j-1], ch is str2[j-1]
RECURSIVE FillRow(_, _, _, _)
FillRow(prev, str1, ch, acc) ==
    IF Len(acc) = Len(str1) + 1 THEN acc
    ELSE LET i == Len(acc)
             indicator == IF str1[i] = ch THEN 0 ELSE 1
         IN  FillRow(prev, str1, ch,
                     Append(acc, Min3(acc[i] + 1, prev[i + 1] + 1, prev[i] + indicator)))

RECURSIVE FillRows(_, _, _, _)
FillRows(prev, str1, str2, j) ==
    IF j > Len(str2) THEN prev
    ELSE FillRows(FillRow(prev, str1, str2[j], <<j>>), str1, str2, j + 1)

\* matrix[str2.length][str1.length]
levenshteinDistance(str1, str2) ==
    FillRows([i \in 1..Len(str1) + 1 |-> i - 1], str1, str2, 1)[Len(str1) + 1]

\* (longer.length - editDistance) / longer.length as the fraction num/den
\* (1.0 for two empty strings)
calculateSimilarity(str1, str2) ==
    LET longer == IF Len(str1) > Len(str2) THEN str1 ELSE str2
        shorter == IF Len(str1) > Len(str2) THEN str2 ELSE str1
    IN  IF Len(longer) = 0 THEN [num |-> 1, den |-> 1]
        ELSE [num |-> Len(longer) - levenshteinDistance(longer, shorter),
              den |-> Len(longer)]

\* similarity > 0.8: for lengths as short as a tag name the quotient of two
\* integers is above the double 0.8 exactly when it is above 4/5
Above08(sim) == 5 * sim.num > 4 * sim.den

\* suggestedName: similarTags[0]
SuggestedOf(similarTags) == similarTags[1]

\* A classifier that would look for similar names before case variants.
analyzeTagConflictSimilarFirst(importTag, existingTags) ==
    LET caseMatches == SelectSeq(existingTags,
                                 LAMBDA tag : toLowerCase(tag) = toLowerCase(importTag))
        similarTags == SelectSeq(existingTags,
                                 LAMBDA tag : Above08(calculateSimilarity(importTag, tag)))
    IN  IF \E n \in 1..Len(existingTags) : existingTags[n] = importTag
        THEN [importTag |-> importTag, existingTags |-> <<importTag>>,
              type |-> "exact", action |-> "merge", suggestedName |-> <<>>]
        ELSE IF similarTags # <<>>
        THEN [importTag |-> importTag, existingTags |-> similarTags,
              type |-> "similar", action |-> "merge",
              suggestedName |-> <<SuggestedOf(similarTags)>>]
        ELSE IF caseMatches # <<>>
        THEN [importTag |-> importTag, existingTags |-> <<caseMatches[1]>>,
              type |-> "case", action |-> "merge", suggestedName |-> <<caseMatches[1]>>]
        ELSE [importTag |-> importTag, existingTags |-> <<>>,
              type |-> "new", action |-> "keep", suggestedName |-> <<>>]

\* analyzeTagConflict: the TagConflict it returns (suggestedName is <<>> where
\* the object has none, <<name>> else)
analyzeTagConflict(importTag, existingTags) ==
    LET caseMatches == SelectSeq(existingTags,
                                 LAMBDA tag : toLowerCase(tag) = toLowerCase(importTag))
        similarTags == SelectSeq(existingTags,
                                 LAMBDA tag : Above08(calculateSimilarity(importTag, tag)))
    IN  IF \E n \in 1..Len(existingTags) : existingTags[n] = importTag
        THEN [importTag |-> importTag, existingTags |-> <<importTag>>,
              type |-> "exact", action |-> "merge", suggestedName |-> <<>>]
        ELSE IF caseMatches # <<>> /\ caseMatches[1] # <<>>
        THEN [importTag |-> importTag, existingTags |-> <<caseMatches[1]>>,
              type |-> "case", action |-> "merge", suggestedName |-> <<caseMatches[1]>>]
        ELSE IF similarTags # <<>>
        THEN [importTag |-> importTag, existingTags |-> similarTags,
              type |-> "similar", action |-> "merge",
              suggestedName |-> <<SuggestedOf(similarTags)>>]
        ELSE [importTag |-> importTag, existingTags |-> <<>>,
              type |-> "new", action |-> "keep", suggestedName |-> <<>>]

\* ------------------------------------------------------------- documents
\* A value of the key-value area, or a StorageData object in memory. Each
\* top-level field carries the kind of value found under its key:
\*   bookmarks: "missing" (absent or falsy), "array", "object" (an object
\*              that is no array; v lists its values), "junk" (truthy, no object)
\*   tags:      "missing", "map", "junk"
\*   ledger:    "missing", "array"         (deletedDefaultTags)
\*   settings:  "missing", "ok", "junk"
Field(k, v) == [k |-> k, v |-> v]
NoField == Field("missing", <<>>)
MkDoc(b, t, l, s) == [bookmarks |-> b, tags |-> t, ledger |-> l, settings |-> s]
DefaultSettings == Field("ok", <<>>)
EmptyStore == MkDoc(NoField, NoField, NoField, NoField)

Tag(name, count) == [name |-> name, count |-> count]
Bookmark(id, title, tags) ==
    [id |-> id, title |-> title, tags |-> tags, deleted |-> FALSE, upd |-> FALSE]

\* The tags object as a function from normalized key to Tag.
HasKey(m, k) == k \in DOMAIN m
PutKey(m, k, t) == [x \in DOMAIN m \cup {k} |-> IF x = k THEN t ELSE m[x]]
DelKey(m, k) == [x \in DOMAIN m \ {k} |-> m[x]]
EmptyMap == [x \in {} |-> Tag(<<>>, 0)]

Truthy(f) == f.k # "missing"
\* if (!data || !data.bookmarks || !data.tags || !data.settings)
Incomplete(d) ==
    ~Truthy(d.bookmarks) \/ ~Truthy(d.tags) \/ ~Truthy(d.settings)
\* bookmarks is a list, tags is a map, settings is present
WellFormed(d) ==
    d.bookmarks.k = "array" /\ d.tags.k = "map" /\ d.settings.k # "missing"

\* A set that would merge the bookmarks record by record, keeping a stored
\* record that carries an update where the written one carries none.
StorageSetPerRecord(st, d) ==
    MkDoc(IF Truthy(d.bookmarks) /\ st.bookmarks.k = "array" /\ d.bookmarks.k = "array"
             /\ Len(st.bookmarks.v) = Len(d.bookmarks.v)
          THEN Field("array", [n \in 1..Len(d.bookmarks.v) |->
                                 IF st.bookmarks.v[n].upd /\ ~d.bookmarks.v[n].upd
                                 THEN st.bookmarks.v[n] ELSE d.bookmarks.v[n]])
          ELSE IF Truthy(d.bookmarks) THEN d.bookmarks ELSE st.bookmarks,
          IF Truthy(d.tags) THEN d.tags ELSE st.tags,
          IF Truthy(d.ledger) THEN d.ledger ELSE st.ledger,
          IF Truthy(d.settings) THEN d.settings ELSE st.settings)

\* chrome.storage.local.set(items): the keys of items replace the stored ones,
\* every other stored key stays.
StorageSet(st, d) ==
    MkDoc(IF Truthy(d.bookmarks) THEN d.bookmarks ELSE st.bookmarks,
          IF Truthy(d.tags) THEN d.tags ELSE st.tags,
          IF Truthy(d.ledger) THEN d.ledger ELSE st.ledger,
          IF Truthy(d.settings) THEN d.settings ELSE st.settings)

\* ----------------------------------------------------- tag count upkeep
\* for (tagName of tags) { create the Tag at count 0 if absent; count++ }
RECURSIVE IncTags(_, _)
IncTags(m, list) ==
    IF list = <<>> THEN m
    ELSE LET k == normalizeTag(Head(list))
             m1 == IF HasKey(m, k) THEN m ELSE PutKey(m, k, Tag(Head(list), 0))
         IN  IncTags([m1 EXCEPT ![k].count = @ + 1], Tail(list))

\* for (tagName of tags) { if the Tag exists: count--, deleted at count <= 0 }
RECURSIVE DecTags(_, _)
DecTags(m, list) ==
    IF list = <<>> THEN m
    ELSE LET k == normalizeTag(Head(list))
             m1 == IF ~HasKey(m, k) THEN m
                   ELSE IF m[k].count - 1 <= 0 THEN DelKey(m, k)
                   ELSE [m EXCEPT ![k].count = @ - 1]
         IN  DecTags(m1, Tail(list))

\* bookmarks.findIndex(b => b.id === id); 0 stands for -1
RECURSIVE FindFrom(_, _, _)
FindFrom(bms, id, n) ==
    IF n > Len(bms) THEN 0
    ELSE IF bms[n].id = id THEN n ELSE FindFrom(bms, id, n + 1)
FindIndex(bms, id) == FindFrom(bms, id, 1)

\* bookmark.tags.filter(t => t !== tagName)
Without(list, name) == SelectSeq(list, LAMBDA t : t # name)

\* ------------------------------------------------- the operations' bodies
\* A tags value that is no object (kind "junk", a string or a number) answers
\* undefined to every lookup and throws a TypeError on assignment; an absent
\* one throws on the lookup. A bookmarks value that is no array has no push,
\* findIndex or forEach.
\* What an operation does between getData()'s return and its storage.set:
\* the Document as mutated in place, and "write" (storage.set(data) is issued
\* next), "ok" (returns without a write) or the error thrown.
Res(d, out) == [doc |-> d, out |-> out]

\* An operation's arguments a: id, title (0: none given), tags (with
\* tagsGiven: updates.tags is set), name (a tag name), as the operation has them.
NoArgs == [none |-> TRUE]

addBookmarkBody(d, a, newId) ==
    IF d.bookmarks.k # "array" THEN Res(d, "TypeError")
    ELSE LET d1 == [d EXCEPT !.bookmarks.v = Append(@, Bookmark(newId, a.title, a.tags))]
         IN  IF a.tags = <<>> THEN Res(d1, "write")
             ELSE IF d.tags.k # "map" THEN Res(d1, "TypeError")
             ELSE Res([d1 EXCEPT !.tags.v = IncTags(@, a.tags)], "write")

updateBookmarkBody(d, a) ==
    IF d.bookmarks.k # "array" THEN Res(d, "TypeError")
    ELSE LET idx == FindIndex(d.bookmarks.v, a.id)
         IN  IF idx = 0 THEN Res(d, "NotFound")
             ELSE LET old == d.bookmarks.v[idx]
                      new == [old EXCEPT !.title = IF a.title = 0 THEN @ ELSE a.title,
                                         !.upd = TRUE,
                                         !.tags = IF a.tagsGiven THEN a.tags ELSE @]
                      d1 == [d EXCEPT !.bookmarks.v[idx] = new]
                  IN  IF ~a.tagsGiven \/ (old.tags = <<>> /\ a.tags = <<>>)
                      THEN Res(d1, "write")
                      ELSE IF d.tags.k = "map"
                      THEN Res([d1 EXCEPT !.tags.v = IncTags(DecTags(@, old.tags), a.tags)],
                               "write")
                      ELSE IF d.tags.k = "junk" /\ a.tags = <<>> THEN Res(d1, "write")
                      ELSE Res(d, "TypeError")

deleteBookmarkBody(d, a) ==
    IF d.bookmarks.k # "array" THEN Res(d, "TypeError")
    ELSE LET idx == FindIndex(d.bookmarks.v, a.id)
         IN  IF idx = 0 THEN Res(d, "NotFound")
             ELSE LET old == d.bookmarks.v[idx]
                      d1 == [d EXCEPT !.bookmarks.v[idx].deleted = TRUE]
                  IN  IF old.tags = <<>> \/ d.tags.k = "junk" THEN Res(d1, "write")
                      ELSE IF d.tags.k # "map" THEN Res(d1, "TypeError")
                      ELSE Res([d1 EXCEPT !.tags.v = DecTags(@, old.tags)], "write")

\* A createTag that would replace the tag it finds under the key.
createTagBodyOverwrites(d, a) ==
    IF d.tags.k # "map" THEN Res(d, "TypeError")
    ELSE Res([d EXCEPT !.tags.v = PutKey(@, normalizeTag(a.name), Tag(a.name, 0))], "write")

createTagBody(d, a) ==
    IF d.tags.k # "map" THEN Res(d, "TypeError")
    ELSE LET k == normalizeTag(a.name)
         IN  IF HasKey(d.tags.v, k) THEN Res(d, "AlreadyExists")
             ELSE Res([d EXCEPT !.tags.v = PutKey(@, k, Tag(a.name, 0))], "write")

\* A ledger update that would push both names without looking.
LedgerAfterDeleteAppends(led, name) ==
    LET l0 == IF led.k = "missing" THEN <<>> ELSE led.v
    IN  Field("array", IF Includes(DEFAULT_TAGS, name)
                       THEN Append(Append(l0, name), normalizeTag(name)) ELSE l0)

\* deleteTag's ledger update: the raw and the normalized name, each once
LedgerAfterDelete(led, name) ==
    LET l0 == IF led.k = "missing" THEN <<>> ELSE led.v
        l1 == IF Includes(l0, name) THEN l0 ELSE Append(l0, name)
        l2 == IF Includes(l1, normalizeTag(name)) THEN l1
              ELSE Append(l1, normalizeTag(name))
    IN  Field("array", IF Includes(DEFAULT_TAGS, name) THEN l2 ELSE l0)

\* deleteTag's pass over the bookmarks
StripTag(bms, name) ==
    [n \in 1..Len(bms) |->
        IF Includes(bms[n].tags, name)
        THEN [bms[n] EXCEPT !.tags = Without(@, name), !.upd = TRUE]
        ELSE bms[n]]

\* A deleteTag that would persist the index before it touches the rest.
deleteTagBodyIndexOnly(d, a) ==
    IF d.tags.k # "map" \/ ~HasKey(d.tags.v, normalizeTag(a.name)) THEN Res(d, "NotFound")
    ELSE Res([d EXCEPT !.tags.v = DelKey(@, normalizeTag(a.name))], "write")

deleteTagBody(d, a) ==
    IF d.tags.k = "missing" THEN Res(d, "TypeError")
    ELSE IF d.tags.k = "junk" THEN Res(d, "NotFound")
    ELSE LET k == normalizeTag(a.name)
         IN  IF ~HasKey(d.tags.v, k) THEN Res(d, "NotFound")
             ELSE LET d1 == [d EXCEPT !.tags.v = DelKey(@, k),
                                      !.ledger = LedgerAfterDelete(@, a.name)]
                  IN  IF d.bookmarks.k # "array" THEN Res(d1, "TypeError")
                      ELSE Res([d1 EXCEPT !.bookmarks.v = StripTag(@, a.name)], "write")

Body(name, d, a, newId) ==
    CASE name = "addBookmark" -> addBookmarkBody(d, a, newId)
      [] name = "updateBookmark" -> updateBookmarkBody(d, a)
      [] name = "deleteBookmark" -> deleteBookmarkBody(d, a)
      [] name = "createTag" -> createTagBody(d, a)
      [] name = "deleteTag" -> deleteTagBody(d, a)
      [] OTHER -> Res(d, "ok")

\* getBookmarks(): the non-deleted records ([] when bookmarks is no array)
getBookmarks(d) ==
    IF d.bookmarks.k # "array" THEN <<>>
    ELSE SelectSeq(d.bookmarks.v, LAMBDA b : ~b.deleted)

\* searchBookmarks(query, tags) on d: the records of getBookmarks() whose
\* title holds the query (q = 0: no query; a title is one token here, so
\* "holds" is equality) and that carry, by key, every one of the tags
searchBookmarks(d, q, tags) ==
    SelectSeq(getBookmarks(d),
              LAMBDA b : /\ q = 0 \/ b.title = q
                         /\ \A m \in 1..Len(tags) :
                               \E n \in 1..Len(b.tags) :
                                   normalizeTag(b.tags[n]) = normalizeTag(tags[m]))

\* getTags(): data.tags || {}
getTags(d) == IF d.tags.k = "map" THEN d.tags.v ELSE EmptyMap

\* ------------------------------------------------ initialize and repair
\* The starter tags that are not in the ledger (raw or normalized), count 0,
\* added to m where their key is absent.
RECURSIVE AddDefaults(_, _, _)
AddDefaults(m, led, defs) ==
    IF defs = <<>> THEN m
    ELSE LET name == Head(defs)
             k == normalizeTag(name)
             skip == Includes(led, name) \/ Includes(led, k) \/ HasKey(m, k)
         IN  AddDefaults(IF skip THEN m ELSE PutKey(m, k, Tag(name, 0)), led, Tail(defs))

LedgerOr(d) == IF d.ledger.k = "missing" THEN <<>> ELSE d.ledger.v

\* An initial branch that would create every starter tag, whatever the ledger.
InitialDataAllStarters(data) ==
    MkDoc(Field("array", <<>>),
          Field("map", AddDefaults(EmptyMap, <<>>, DEFAULT_TAGS)),
          Field("array", LedgerOr(data)),
          DefaultSettings)

\* initializeStorage, the data-incomplete branch: what it persists
InitialData(data) ==
    MkDoc(Field("array", <<>>),
          Field("map", AddDefaults(EmptyMap, LedgerOr(data), DEFAULT_TAGS)),
          Field("array", LedgerOr(data)),
          DefaultSettings)

\* the catch branch of initializeStorage, and clearAllData's fresh Document
FallbackData == MkDoc(Field("array", <<>>), Field("map", EmptyMap), NoField, DefaultSettings)

\* bookmarks coerced to an array
CoerceBookmarks(f) ==
    IF f.k = "array" THEN f
    ELSE IF f.k = "object" THEN Field("array", f.v) ELSE Field("array", <<>>)

\* tags coerced to an object
CoerceTags(f) == IF f.k = "map" THEN f ELSE Field("map", EmptyMap)

\* number of occurrences of the raw name in the tag lists of the bookmarks
RECURSIVE Occurrences(_, _)
Occurrences(bms, name) ==
    IF bms = <<>> THEN 0
    ELSE Len(SelectSeq(Head(bms).tags, LAMBDA t : t = name)) + Occurrences(Tail(bms), name)

\* the recount and the removal of the tags left at count 0
Recount(m, bms) ==
    LET counted == [k \in DOMAIN m |-> [m[k] EXCEPT !.count = Occurrences(bms, m[k].name)]]
        kept == {k \in DOMAIN m : counted[k].count # 0}
    IN  [k \in kept |-> counted[k]]

\* initializeStorage, the data-complete branch: the Document it leaves in the
\* cache, and whether it persists it (needsUpdate)
Repaired(data) ==
    LET b == CoerceBookmarks(data.bookmarks)
        t == CoerceTags(data.tags)
        s == IF data.settings.k = "ok" THEN data.settings ELSE DefaultSettings
        led == LedgerOr(data)
        withDefaults == AddDefaults(t.v, led, DEFAULT_TAGS)
        recounted == Recount(withDefaults, b.v)
        doc == MkDoc(b, Field("map", recounted), Field("array", led), s)
    IN  [doc |-> doc,
         needsUpdate |-> b # data.bookmarks \/ t # data.tags \/ s # data.settings
                         \/ withDefaults # t.v \/ recounted # withDefaults]

\* A format check that would ask for the write whatever it found.
ValidatedAlwaysWrites(data) ==
    [doc |-> [data EXCEPT !.bookmarks = CoerceBookmarks(@), !.tags = CoerceTags(@)],
     needsUpdate |-> TRUE]

\* getData, the data-complete branch
Validated(data) ==
    LET doc == [data EXCEPT !.bookmarks = CoerceBookmarks(@), !.tags = CoerceTags(@)]
    IN  [doc |-> doc, needsUpdate |-> doc # data]

\* ------------------------------------------------------------------ state
Null == <<>>
Some(d) == <<d>>

VARIABLES
    storage,      \* the value of the key-value area (chrome.storage.local)
    cache,        \* cache[i]: this.cache of Store Manager i, Null or Some(doc)
    op,           \* op[i]: the operation in flight on i and the await it is at
    res,          \* res[i]: how the last operation of i ended
    lis,          \* lis[i]: where the onChanged handler of i is
    isProcessing, \* isProcessing[i]: the handler's re-entrancy flag
    pending,      \* pending[i]: change events fired and not yet handed to i
    listeners,    \* listeners[i]: the subscribed callbacks, in insertion order
    delivered,    \* delivered[i]: the Document of the last notifyListeners
    handles,      \* handles[i]: the unsubscribe functions addListener returned,
                  \* each with its callback and whether it was ever called
    invoked,      \* invoked[i]: the callbacks the last notifyListeners called, in order
    nextId,       \* the next identifier generateId() hands out
    nops,         \* operations started so far
    fails,        \* calls of the key-value area that failed so far
    live,         \* the Store Managers that exist
    hear,         \* the Store Managers whose change feed is delivered
    ledgered,     \* starter keys removed by a deleteTag since the last clear()
    clean,        \* clean[i]: what getData() last returned on i, while no
                  \* mutating operation has started or written since
    imp           \* the importer's call of analyzeTagConflict: its arguments
                  \* and, once it returned, the TagConflict

vars == <<storage, cache, op, res, lis, isProcessing, pending, listeners,
          delivered, handles, invoked, nextId, nops, fails, live, hear, ledgered, clean,
          imp>>

\* The callbacks a caller may subscribe: 1 and 2 return, 3 throws.
Callbacks == {1, 2, 3}
Throws(c) == c = 3
\* the unsubscribe function of an addListener(c), not yet called
Handle(c) == [cb |-> c, called |-> FALSE]

\* no call of the importer
NoImport == [importTag |-> <<>>, existingTags |-> <<>>, conflict |-> <<>>]

IdleOp == [pc |-> "idle"]
NoRes == [out |-> "none"]
\* an operation as called: its name and arguments, and what clean held for
\* its Store Manager (prev). Filled in later: the Document getData() returned
\* to it (pre) and how getData() came by it (via: "cache", "read", "repair",
\* "init" or "fallback"), the Document of the storage.set in flight (data),
\* the number of its storage.set and storage.clear calls that resolved
\* (writes) and the awaits of such calls that rejected (lost).
Called(name, a, prev) ==
    [pc |-> "called", name |-> name, a |-> a, data |-> Null, writes |-> 0,
     pre |-> Null, prev |-> prev, via |-> "none", lost |-> {}]

\* The states before any Store Manager has run: the area holds doc, no cache.
InitStore(docs, liveSet, hearSet, subs, failed) ==
    /\ storage \in docs
    /\ cache = [i \in liveSet |-> Null]
    /\ op = [i \in liveSet |-> IdleOp]
    /\ res = [i \in liveSet |-> NoRes]
    /\ lis = [i \in liveSet |-> "idle"]
    /\ isProcessing = [i \in liveSet |-> FALSE]
    /\ pending = [i \in liveSet |-> 0]
    /\ listeners = [i \in liveSet |-> IF i \in subs THEN <<1>> ELSE <<>>]
    /\ delivered = [i \in liveSet |-> Null]
    /\ handles = [i \in liveSet |-> IF i \in subs THEN <<Handle(1)>> ELSE <<>>]
    /\ invoked = [i \in liveSet |-> Null]
    /\ nextId = 1
    /\ nops = 0
    /\ fails = failed
    /\ live = liveSet
    /\ hear = hearSet
    /\ ledgered = {}
    /\ clean = [i \in liveSet |-> Null]

\* ... and the importer has not been called
InitWith(docs, liveSet, hearSet, subs, failed) ==
    /\ InitStore(docs, liveSet, hearSet, subs, failed)
    /\ imp = NoImport

\* A call of the key-value area resolves or, while failures are left, rejects.
Outcomes == IF fails < MaxFail THEN {TRUE, FALSE} ELSE {TRUE}
Failed(ok) == fails' = IF ok THEN fails ELSE fails + 1

\* chrome.storage.onChanged fires in every context when the value changed.
Fire(new) ==
    pending' = [j \in live |-> IF j \in hear /\ new # storage THEN pending[j] + 1
                               ELSE pending[j]]
CanFire == \A j \in hear : pending[j] < MaxPending

ReadOps == {"getData", "getBookmarks", "getTags", "searchBookmarks"}
Mutating(name) == name \notin ReadOps

\* the operation of i ends: resolved (out = "ok") or rejected with out
Finish(i, o, out, ret) ==
    /\ op' = [op EXCEPT ![i] = IdleOp]
    /\ res' = [res EXCEPT ![i] =
                 [name |-> o.name, a |-> o.a, out |-> out, pre |-> o.pre,
                  prev |-> o.prev, ret |-> ret, writes |-> o.writes, via |-> o.via,
                  lost |-> o.lost]]
    /\ clean' = IF Mutating(o.name) THEN [j \in live |-> Null]
                ELSE [clean EXCEPT ![i] = IF out = "ok" THEN ret ELSE Null]

\* getData() comes to its last statements with c in this.cache: its closing
\* console.log reads Object.keys(this.cache.tags), which throws on a null
\* cache and on an absent tags field (the operation is rejected); else c is
\* returned to the operation o of i, whose body runs up to its storage.set
\* or to its end.
Proceed(i, o, c, via) ==
    IF c = Null \/ c[1].tags.k = "missing"
    THEN /\ cache' = [cache EXCEPT ![i] = c]
         /\ nextId' = nextId
         /\ Finish(i, [o EXCEPT !.via = via], "TypeError", Null)
    ELSE LET r == Body(o.name, c[1], o.a, nextId)
             o1 == [o EXCEPT !.pre = c, !.via = via]
         IN  /\ cache' = [cache EXCEPT ![i] = Some(r.doc)]
             /\ nextId' = IF o.name = "addBookmark" THEN nextId + 1 ELSE nextId
             /\ IF r.out = "write"
                THEN /\ op' = [op EXCEPT ![i] = [o1 EXCEPT !.pc = "set", !.data = Some(r.doc)]]
                     /\ res' = res
                     /\ clean' = [j \in live |-> Null]
                ELSE Finish(i, o1, r.out, Some(r.doc))

\* an operation of the Store Manager i is called
Begin(i, name, a) ==
    /\ op[i].pc = "idle"
    /\ nops < MaxOps
    /\ nops' = nops + 1
    /\ LET o == Called(name, a, clean[i])
       IN  IF cache[i] = Null
           THEN /\ op' = [op EXCEPT ![i] = [o EXCEPT !.pc = "get1"]]
                /\ clean' = IF Mutating(name) THEN [j \in live |-> Null] ELSE clean
                /\ UNCHANGED <<cache, res, nextId>>
           ELSE Proceed(i, o, cache[i], "cache")
    /\ UNCHANGED <<storage, lis, isProcessing, pending, listeners, handles, invoked, delivered,
                   fails, live, hear, imp, ledgered>>

getData(i) ==
    /\ i \in live
    /\ Begin(i, "getData", NoArgs)

addBookmark(i, title, tags) ==
    /\ nextId <= MaxBookmarks
    /\ Begin(i, "addBookmark", [title |-> title, tags |-> tags])

updateBookmark(i, id, title, tagsGiven, tags) ==
    /\ i \in live
    /\ Begin(i, "updateBookmark",
             [id |-> id, title |-> title, tagsGiven |-> tagsGiven, tags |-> tags])

deleteBookmark(i, id) ==
    /\ i \in live
    /\ Begin(i, "deleteBookmark", [id |-> id])

\* getBookmarks(), getTags() and searchBookmarks() await getData() and compute
\* their answer from the Document it returns
GetBookmarksCall(i) ==
    /\ i \in live
    /\ Begin(i, "getBookmarks", NoArgs)

GetTagsCall(i) ==
    /\ i \in live
    /\ Begin(i, "getTags", NoArgs)

SearchBookmarksCall(i, q, tags) ==
    /\ i \in live
    /\ Begin(i, "searchBookmarks", [q |-> q, tags |-> tags])

createTag(i, name) ==
    /\ i \in live
    /\ Begin(i, "createTag", [name |-> name])

deleteTag(i, name) ==
    /\ i \in live
    /\ Begin(i, "deleteTag", [name |-> name])

\* clearAllData does not read: storage.clear() is issued at once
clearAllData(i) ==
    /\ i \in live
    /\ op[i].pc = "idle"
    /\ nops < MaxOps
    /\ nops' = nops + 1
    /\ op' = [op EXCEPT ![i] = [Called("clearAllData", NoArgs, Null)
                                   EXCEPT !.pc = "clear", !.data = Some(FallbackData)]]
    /\ clean' = [j \in live |-> Null]
    /\ UNCHANGED <<storage, cache, res, lis, isProcessing, pending, listeners, handles, invoked,
                   delivered, nextId, fails, live, hear, imp, ledgered>>

\* getData: `await this.storage.get(null)` resolves or rejects
GetDataGet(i) ==
    /\ op[i].pc = "get1"
    /\ \E ok \in Outcomes :
         /\ Failed(ok)
         /\ IF ~ok
            THEN /\ Finish(i, op[i], "ReadError", Null)
                 /\ UNCHANGED <<cache, nextId>>
            ELSE IF Incomplete(storage)
            THEN /\ op' = [op EXCEPT ![i].pc = "get2"]
                 /\ UNCHANGED <<cache, res, nextId, clean>>
            ELSE LET v == Validated(storage)
                 IN  IF v.needsUpdate
                     THEN /\ cache' = [cache EXCEPT ![i] = Some(v.doc)]
                          /\ op' = [op EXCEPT ![i].pc = "setV", ![i].data = Some(v.doc)]
                          /\ UNCHANGED <<res, nextId, clean>>
                     ELSE Proceed(i, op[i], Some(v.doc), "read")
    /\ UNCHANGED <<storage, lis, isProcessing, pending, listeners, handles, invoked, delivered,
                   nops, live, hear, imp, ledgered>>

\* initializeStorage: `await this.storage.get(null)` resolves or rejects
InitializeGet(i) ==
    /\ op[i].pc = "get2"
    /\ \E ok \in Outcomes :
         /\ Failed(ok)
         /\ IF ~ok
            THEN /\ cache' = [cache EXCEPT ![i] = Some(FallbackData)]
                 /\ op' = [op EXCEPT ![i].pc = "setF", ![i].data = Some(FallbackData)]
                 /\ UNCHANGED <<res, nextId, clean>>
            ELSE IF Incomplete(storage)
            THEN /\ op' = [op EXCEPT ![i].pc = "setI", ![i].data = Some(InitialData(storage))]
                 /\ UNCHANGED <<cache, res, nextId, clean>>
            ELSE LET r == Repaired(storage)
                 IN  IF r.needsUpdate
                     THEN /\ cache' = [cache EXCEPT ![i] = Some(r.doc)]
                          /\ op' = [op EXCEPT ![i].pc = "setR", ![i].data = Some(r.doc)]
                          /\ UNCHANGED <<res, nextId, clean>>
                     ELSE Proceed(i, op[i], Some(r.doc), "repair")
    /\ UNCHANGED <<storage, lis, isProcessing, pending, listeners, handles, invoked, delivered,
                   nops, live, hear, imp, ledgered>>

\* a storage.set(data) of the operation o lands, or is rejected
Landed(o) == [o EXCEPT !.writes = @ + 1]
Lost(o) == [o EXCEPT !.lost = @ \cup {o.pc}]
\* An await whose rejection would be caught and dropped.
AwaitedAndCaught(ok) == "ok"

\* an await whose promise rejects throws out of the async method: the
\* operation's own promise is rejected with the error
Awaited(ok) == IF ok THEN "ok" ELSE "WriteError"
Persist(i) ==
    /\ storage' = StorageSet(storage, op[i].data[1])
    /\ Fire(StorageSet(storage, op[i].data[1]))

\* initializeStorage: `await this.storage.set(initialData)`
InitializeSetInitial(i) ==
    /\ op[i].pc = "setI"
    /\ CanFire
    /\ \E ok \in Outcomes :
         /\ Failed(ok)
         /\ IF ok
            THEN /\ Persist(i)
                 /\ Proceed(i, Landed(op[i]), op[i].data, "init")
            ELSE /\ cache' = [cache EXCEPT ![i] = Some(FallbackData)]
                 /\ op' = [op EXCEPT ![i] = [Lost(op[i]) EXCEPT !.pc = "setF",
                                                               !.data = Some(FallbackData)]]
                 /\ UNCHANGED <<storage, pending, res, nextId, clean>>
    /\ UNCHANGED <<lis, isProcessing, listeners, handles, invoked, delivered, nops, live, hear, imp, ledgered>>

\* initializeStorage: `await this.storage.set(this.cache)` after the repairs
InitializeSetRepaired(i) ==
    /\ op[i].pc = "setR"
    /\ CanFire
    /\ \E ok \in Outcomes :
         /\ Failed(ok)
         /\ IF ok
            THEN /\ Persist(i)
                 /\ Proceed(i, Landed(op[i]), cache[i], "repair")
            ELSE /\ cache' = [cache EXCEPT ![i] = Some(FallbackData)]
                 /\ op' = [op EXCEPT ![i] = [Lost(op[i]) EXCEPT !.pc = "setF",
                                                               !.data = Some(FallbackData)]]
                 /\ UNCHANGED <<storage, pending, res, nextId, clean>>
    /\ UNCHANGED <<lis, isProcessing, listeners, handles, invoked, delivered, nops, live, hear, imp, ledgered>>

\* initializeStorage: `await this.storage.set(fallbackData)`, its failure logged
InitializeSetFallback(i) ==
    /\ op[i].pc = "setF"
    /\ CanFire
    /\ \E ok \in Outcomes :
         /\ Failed(ok)
         /\ IF ok
            THEN /\ Persist(i)
                 /\ Proceed(i, Landed(op[i]), cache[i], "fallback")
            ELSE /\ Proceed(i, Lost(op[i]), cache[i], "fallback")
                 /\ UNCHANGED <<storage, pending>>
    /\ UNCHANGED <<lis, isProcessing, listeners, handles, invoked, delivered, nops, live, hear, imp, ledgered>>

\* getData: `await this.storage.set(this.cache)` after a coercion
GetDataSet(i) ==
    /\ op[i].pc = "setV"
    /\ CanFire
    /\ \E ok \in Outcomes :
         /\ Failed(ok)
         /\ IF ok
            THEN /\ Persist(i)
                 /\ Proceed(i, Landed(op[i]), cache[i], "repair")
            ELSE /\ Finish(i, Lost(op[i]), Awaited(ok), Null)
                 /\ UNCHANGED <<storage, pending, cache, nextId>>
    /\ UNCHANGED <<lis, isProcessing, listeners, handles, invoked, delivered, nops, live, hear, imp, ledgered>>

\* the starter keys a landed deleteTag has put under the ledger's protection
Ledgered(o) ==
    IF o.name = "deleteTag" /\ Includes(DEFAULT_TAGS, o.a.name)
    THEN ledgered \cup {normalizeTag(o.a.name)}
    ELSE ledgered

\* A set whose continuation would leave this.cache as it was.
OperationSetKeepsCache(i) ==
    /\ op[i].pc = "set"
    /\ CanFire
    /\ Persist(i)
    /\ ledgered' = Ledgered(op[i])
    /\ Finish(i, Landed(op[i]), "ok", op[i].data)
    /\ UNCHANGED <<cache, lis, isProcessing, listeners, handles, invoked, delivered,
                   nextId, nops, fails, live, hear, imp>>

\* the operation's own `await this.storage.set(data); this.cache = data`
OperationSet(i) ==
    /\ op[i].pc = "set"
    /\ CanFire
    /\ \E ok \in Outcomes :
         /\ Failed(ok)
         /\ IF ok
            THEN /\ Persist(i)
                 /\ cache' = [cache EXCEPT ![i] = op[i].data]
                 /\ ledgered' = Ledgered(op[i])
                 /\ Finish(i, Landed(op[i]), Awaited(ok), op[i].data)
            ELSE /\ Finish(i, Lost(op[i]), Awaited(ok), Null)
                 /\ UNCHANGED <<storage, pending, cache, ledgered>>
    /\ UNCHANGED <<lis, isProcessing, listeners, handles, invoked, delivered, nextId, nops, live, hear, imp>>

\* clearAllData: `await this.storage.clear()`, then storage.set(initialData)
ClearAllDataClear(i) ==
    /\ op[i].pc = "clear"
    /\ CanFire
    /\ \E ok \in Outcomes :
         /\ Failed(ok)
         /\ IF ok
            THEN /\ storage' = EmptyStore
                 /\ Fire(EmptyStore)
                 /\ ledgered' = {}
                 /\ op' = [op EXCEPT ![i] = [Landed(op[i]) EXCEPT !.pc = "set"]]
                 /\ UNCHANGED <<res, clean>>
            ELSE /\ Finish(i, Lost(op[i]), Awaited(ok), Null)
                 /\ UNCHANGED <<storage, pending, ledgered>>
    /\ UNCHANGED <<cache, lis, isProcessing, listeners, handles, invoked, delivered, nextId, nops,
                   live, hear, imp>>

\* ------------------------------------------------------------ subscribers
\* this.listeners.forEach(listener => listener(data)): the callbacks called, in
\* the insertion order of the Set; a callback that throws ends the forEach
\* (the handler's catch logs the error)
RECURSIVE notifyListeners(_)
notifyListeners(ls) ==
    IF ls = <<>> THEN <<>>
    ELSE IF Throws(Head(ls)) THEN <<Head(ls)>>
    ELSE <<Head(ls)>> \o notifyListeners(Tail(ls))

\* addListener(c): Set.add keeps one entry per callback, at the place of its
\* first insertion; the unsubscribe function goes to the caller
addListener(i, c) ==
    /\ i \in live
    /\ Len(handles[i]) < MaxHandles
    /\ listeners' = [listeners EXCEPT ![i] = IF Includes(@, c) THEN @ ELSE Append(@, c)]
    /\ handles' = [handles EXCEPT ![i] = Append(@, Handle(c))]
    /\ UNCHANGED <<storage, cache, op, res, lis, isProcessing, pending, delivered,
                   invoked, nextId, nops, fails, live, hear, imp, ledgered, clean>>

\* the unsubscribe function h of i is called: this.listeners.delete(listener)
Unsubscribe(i, h) ==
    /\ i \in live
    /\ h \in 1..Len(handles[i])
    /\ listeners' = [listeners EXCEPT ![i] = SelectSeq(@, LAMBDA c : c # handles[i][h].cb)]
    /\ handles' = [handles EXCEPT ![i][h].called = TRUE]
    /\ UNCHANGED <<storage, cache, op, res, lis, isProcessing, pending, delivered,
                   invoked, nextId, nops, fails, live, hear, imp, ledgered, clean>>

\* ------------------------------------------------ change propagation loop
\* A handler that would invalidate the cache for a notification it skips.
OnChangedInvalidates(i) ==
    /\ i \in hear
    /\ pending[i] > 0
    /\ pending' = [pending EXCEPT ![i] = @ - 1]
    /\ cache' = [cache EXCEPT ![i] = Null]
    /\ IF isProcessing[i]
       THEN UNCHANGED <<isProcessing, lis>>
       ELSE /\ isProcessing' = [isProcessing EXCEPT ![i] = TRUE]
            /\ lis' = [lis EXCEPT ![i] = "get"]
    /\ UNCHANGED <<storage, op, res, listeners, handles, invoked, delivered, nextId, nops, fails,
                   live, hear, imp, ledgered, clean>>

\* chrome.storage.onChanged calls the handler: skipped while isProcessing,
\* else the cache is invalidated and storage.get(null) is issued
OnChanged(i) ==
    /\ i \in hear
    /\ pending[i] > 0
    /\ pending' = [pending EXCEPT ![i] = @ - 1]
    /\ IF isProcessing[i]
       THEN UNCHANGED <<isProcessing, cache, lis>>
       ELSE /\ isProcessing' = [isProcessing EXCEPT ![i] = TRUE]
            /\ cache' = [cache EXCEPT ![i] = Null]
            /\ lis' = [lis EXCEPT ![i] = "get"]
    /\ UNCHANGED <<storage, op, res, listeners, handles, invoked, delivered, nextId, nops, fails,
                   live, hear, imp, ledgered, clean>>

\* A reload that would read the `bookmarks` key only and keep the other keys
\* of the Document it delivered before.
rawDataBookmarksOnly(i) ==
    IF delivered[i] = Null THEN storage
    ELSE [delivered[i][1] EXCEPT !.bookmarks = storage.bookmarks]
\* const rawData = await this.storage.get(null): every key of the area, as
\* one answer of the area
rawData(i) == storage

\* A handler that would set its timer as the last statement of the try block:
\* a rejected reload or a throwing callback leaves isProcessing set.
ListenerGetTimerInTry(i) ==
    /\ lis[i] = "get"
    /\ \E ok \in Outcomes :
         /\ Failed(ok)
         /\ cache' = [cache EXCEPT ![i] = IF ok THEN Some(rawData(i)) ELSE @]
         /\ delivered' = [delivered EXCEPT ![i] =
                            IF ok /\ listeners[i] # <<>> THEN Some(rawData(i)) ELSE @]
         /\ invoked' = [invoked EXCEPT ![i] =
                          IF ok THEN Some(notifyListeners(listeners[i])) ELSE @]
         /\ lis' = [lis EXCEPT ![i] =
                      IF ok /\ \A n \in 1..Len(listeners[i]) : ~Throws(listeners[i][n])
                      THEN "timer" ELSE "idle"]
    /\ UNCHANGED <<storage, op, res, isProcessing, pending, listeners, handles, nextId,
                   nops, live, hear, imp, ledgered, clean>>

\* A handler that would reload through the initialization of getData(): an
\* incomplete value of the area is replaced by the initial Document, which is
\* written back.
ListenerGetInitializes(i) ==
    /\ lis[i] = "get"
    /\ CanFire
    /\ LET d == IF Incomplete(storage) THEN InitialData(storage) ELSE storage
       IN  /\ storage' = StorageSet(storage, d)
           /\ Fire(StorageSet(storage, d))
           /\ cache' = [cache EXCEPT ![i] = Some(d)]
           /\ delivered' = [delivered EXCEPT ![i] = IF listeners[i] # <<>> THEN Some(d) ELSE @]
           /\ invoked' = [invoked EXCEPT ![i] = Some(notifyListeners(listeners[i]))]
    /\ lis' = [lis EXCEPT ![i] = "timer"]
    /\ UNCHANGED <<op, res, isProcessing, listeners, handles, nextId, fails,
                   nops, live, hear, imp, ledgered, clean>>

\* the handler's `await this.storage.get(null)`: the raw value becomes the
\* cache and goes to the subscribers; a rejection is logged. Then the timer
\* that resets isProcessing is set.
ListenerGet(i) ==
    /\ lis[i] = "get"
    /\ \E ok \in Outcomes :
         /\ Failed(ok)
         /\ cache' = [cache EXCEPT ![i] = IF ok THEN Some(rawData(i)) ELSE @]
         /\ delivered' = [delivered EXCEPT ![i] =
                            IF ok /\ listeners[i] # <<>> THEN Some(rawData(i)) ELSE @]
         /\ invoked' = [invoked EXCEPT ![i] =
                          IF ok THEN Some(notifyListeners(listeners[i])) ELSE @]
    /\ lis' = [lis EXCEPT ![i] = "timer"]
    /\ UNCHANGED <<storage, op, res, isProcessing, pending, listeners, handles, nextId,
                   nops, live, hear, imp, ledgered, clean>>

\* setTimeout(() => { isProcessing = false }, 100)
ListenerTimeout(i) ==
    /\ lis[i] = "timer"
    /\ lis' = [lis EXCEPT ![i] = "idle"]
    /\ isProcessing' = [isProcessing EXCEPT ![i] = FALSE]
    /\ UNCHANGED <<storage, cache, op, res, pending, listeners, handles, invoked, delivered, nextId,
                   nops, fails, live, hear, imp, ledgered, clean>>

\* ------------------------------------------------------------- importer
\* the importer calls analyzeTagConflict(importTag, existingTags) for a tag of
\* the imported file and gets the TagConflict
AnalyzeCall ==
    /\ imp.conflict = <<>>
    /\ imp' = [imp EXCEPT !.conflict = <<analyzeTagConflict(imp.importTag, imp.existingTags)>>]
    /\ UNCHANGED <<storage, cache, op, res, lis, isProcessing, pending, listeners,
                   delivered, handles, invoked, nextId, nops, fails, live, hear,
                   ledgered, clean>>

\* ---------------------------------------------------------- specifications
\* A Document as two addBookmark calls and the starter tags leave it.
Seeded ==
    MkDoc(Field("array", <<Bookmark(8, 1, <<NX>>), Bookmark(9, 1, <<>>)>>),
          Field("map", PutKey(PutKey(EmptyMap, NX, Tag(NX, 1)), NY, Tag(NY, 0))),
          Field("array", <<>>),
          DefaultSettings)
\* Values of an older or foreign shape: bookmarks kept as an object map and
\* tags and settings that are no objects.
OldShape ==
    MkDoc(Field("object", <<Bookmark(8, 1, <<NX>>)>>), Field("junk", <<>>),
          NoField, Field("junk", <<>>))
\* What the service worker's onInstalled handler writes: { bookmarks: [],
\* tags: [] } (an empty array is an object without keys), no settings.
Installed == MkDoc(Field("array", <<>>), Field("map", EmptyMap), NoField, NoField)

\* An incomplete value that holds a ledger: the service worker's first value
\* ({ bookmarks: [], tags: [] }, no settings), loaded raw into a cache by a
\* change event, on which the starter tag x (or x and y) was created and
\* deleted again.
Suppressed(led) == MkDoc(Field("array", <<>>), Field("map", EmptyMap), Field("array", led), NoField)

\* One Store Manager on an empty area, its calls awaited one by one: the
\* bookmark operations, with tag lists whose names have distinct keys.
CrudLists == {<<>>, <<NX>>, <<NX, Na>>}
InitCrud == InitWith({EmptyStore}, {1}, {1}, {1}, MaxFail)
NextCrud ==
    \/ \E tags \in CrudLists : addBookmark(1, 1, tags)
    \/ \E id \in 1..MaxBookmarks, tags \in CrudLists : updateBookmark(1, id, 0, TRUE, tags)
    \/ \E id \in 1..MaxBookmarks : deleteBookmark(1, id)
    \/ GetDataGet(1)
    \/ InitializeGet(1)
    \/ InitializeSetInitial(1)
    \/ OperationSet(1)
    \/ OnChanged(1)
    \/ ListenerGet(1)
    \/ ListenerTimeout(1)
SpecCrud == InitCrud /\ [][NextCrud]_vars

\* Three Store Managers (three open surfaces) on an empty area, no change
\* event delivered yet: 1 deletes a starter tag, 2 adds and deletes a
\* bookmark, 3 only reads.
InitLedger == InitWith({EmptyStore}, {1, 2, 3}, {}, {}, MaxFail)
NextLedger ==
    \/ deleteTag(1, NX)
    \/ addBookmark(2, 1, <<NX>>)
    \/ deleteBookmark(2, 1)
    \/ getData(3)
    \/ \E i \in {1, 2, 3} :
         \/ GetDataGet(i)
         \/ InitializeGet(i)
         \/ InitializeSetInitial(i)
         \/ InitializeSetRepaired(i)
         \/ OperationSet(i)
SpecLedger == InitLedger /\ [][NextLedger]_vars

\* Two Store Managers with their change feeds on one area that holds the
\* bookmarks 8 and 9: 1 retitles bookmark 8, 2 retitles bookmark 9.
InitRace == InitWith({Seeded}, {1, 2}, {1, 2}, {}, MaxFail)
NextRace ==
    \/ updateBookmark(1, 8, 2, FALSE, <<>>)
    \/ updateBookmark(2, 9, 2, FALSE, <<>>)
    \/ \E i \in {1, 2} :
         \/ GetDataGet(i)
         \/ OperationSet(i)
         \/ OnChanged(i)
         \/ ListenerGet(i)
         \/ ListenerTimeout(i)
SpecRace == InitRace /\ [][NextRace]_vars

\* One Store Manager with a subscriber on an area of any shape: reads and
\* clearAllData, the change feed on.
InitFeed == InitWith({EmptyStore, Seeded, OldShape}, {1}, {1}, {1}, MaxFail)
NextFeed ==
    \/ getData(1)
    \/ clearAllData(1)
    \/ GetDataGet(1)
    \/ InitializeGet(1)
    \/ InitializeSetInitial(1)
    \/ GetDataSet(1)
    \/ ClearAllDataClear(1)
    \/ OperationSet(1)
    \/ OnChanged(1)
    \/ ListenerGet(1)
    \/ ListenerTimeout(1)
SpecFeed == InitFeed /\ [][NextFeed]_vars

\* One Store Manager with a subscriber on an area of any shape: getData()
\* called again and again, calls of the area failing, the change feed on.
InitRead == InitWith({EmptyStore, Installed, Seeded, OldShape}, {1}, {1}, {1}, 0)
NextRead ==
    \/ getData(1)
    \/ GetDataGet(1)
    \/ InitializeGet(1)
    \/ InitializeSetInitial(1)
    \/ InitializeSetFallback(1)
    \/ GetDataSet(1)
    \/ OnChanged(1)
    \/ ListenerGet(1)
    \/ ListenerTimeout(1)
SpecRead == InitRead /\ [][NextRead]_vars

\* One Store Manager with a subscriber on an empty or populated area:
\* addBookmark with drafts of any tag list, also one whose names share a key.
DraftLists == {<<>>, <<NX>>, <<NA, NX>>, <<NA, Na>>}
InitAdd == InitWith({EmptyStore, Seeded}, {1}, {1}, {1}, MaxFail)
NextAdd ==
    \/ \E title \in {1, 2}, tags \in DraftLists : addBookmark(1, title, tags)
    \/ GetDataGet(1)
    \/ InitializeGet(1)
    \/ InitializeSetInitial(1)
    \/ OperationSet(1)
    \/ OnChanged(1)
    \/ ListenerGet(1)
    \/ ListenerTimeout(1)
SpecAdd == InitAdd /\ [][NextAdd]_vars

\* One Store Manager with a subscriber on an empty or populated area: every
\* mutating operation, on ids and names that are there and that are not, the
\* change feed on.
Init == InitWith({EmptyStore, Seeded}, {1}, {1}, {1}, MaxFail)
Next ==
    \/ addBookmark(1, 1, <<NA>>)
    \/ \E id \in {8, 5} : updateBookmark(1, id, 0, TRUE, <<NA>>)
    \/ \E id \in {8, 5} : deleteBookmark(1, id)
    \/ \E name \in {NX, NA} : createTag(1, name)
    \/ \E name \in {NX, NA} : deleteTag(1, name)
    \/ GetDataGet(1)
    \/ InitializeGet(1)
    \/ InitializeSetInitial(1)
    \/ OperationSet(1)
    \/ OnChanged(1)
    \/ ListenerGet(1)
    \/ ListenerTimeout(1)
Spec == Init /\ [][Next]_vars

\* One Store Manager with a subscriber on an empty or populated area: every
\* mutating operation, calls of the area failing, the change feed on.
InitFail == InitWith({EmptyStore, Seeded}, {1}, {1}, {1}, 0)
NextFail ==
    \/ addBookmark(1, 1, <<NA>>)
    \/ updateBookmark(1, 8, 2, FALSE, <<>>)
    \/ deleteBookmark(1, 8)
    \/ createTag(1, NA)
    \/ deleteTag(1, NX)
    \/ GetDataGet(1)
    \/ InitializeGet(1)
    \/ InitializeSetInitial(1)
    \/ InitializeSetFallback(1)
    \/ OperationSet(1)
    \/ OnChanged(1)
    \/ ListenerGet(1)
    \/ ListenerTimeout(1)
SpecFail == InitFail /\ [][NextFail]_vars

\* One Store Manager with a subscriber on an empty or populated area: a
\* starter tag deleted under two spellings, re-created and used by new
\* bookmarks, reads in between, the change feed on.
InitTag == InitWith({EmptyStore, Seeded}, {1}, {1}, {1}, MaxFail)
NextTag ==
    \/ \E name \in {NX, NXpad} : deleteTag(1, name)
    \/ createTag(1, NX)
    \/ addBookmark(1, 1, <<NX>>)
    \/ getData(1)
    \/ GetDataGet(1)
    \/ InitializeGet(1)
    \/ InitializeSetInitial(1)
    \/ OperationSet(1)
    \/ OnChanged(1)
    \/ ListenerGet(1)
    \/ ListenerTimeout(1)
SpecTag == InitTag /\ [][NextTag]_vars

\* One Store Manager with a subscriber on an empty area: bookmarks tagged with
\* a name in either case, and the tag deleted under the name the index shows.
InitStrip == InitWith({EmptyStore}, {1}, {1}, {1}, MaxFail)
NextStrip ==
    \/ \E tags \in {<<NA>>, <<Na>>} : addBookmark(1, 1, tags)
    \/ \E name \in {NA, Na} : deleteTag(1, name)
    \/ GetDataGet(1)
    \/ InitializeGet(1)
    \/ InitializeSetInitial(1)
    \/ OperationSet(1)
    \/ OnChanged(1)
    \/ ListenerGet(1)
    \/ ListenerTimeout(1)
SpecStrip == InitStrip /\ [][NextStrip]_vars

\* One Store Manager with a subscriber on an empty area: bookmarks added with
\* any tag list and soft-deleted.
InitSoft == InitWith({EmptyStore}, {1}, {1}, {1}, MaxFail)
NextSoft ==
    \/ \E tags \in {<<NX>>, <<NA, NX>>, <<NA, Na>>} : addBookmark(1, 1, tags)
    \/ \E id \in 1..MaxBookmarks : deleteBookmark(1, id)
    \/ GetDataGet(1)
    \/ InitializeGet(1)
    \/ InitializeSetInitial(1)
    \/ OperationSet(1)
    \/ OnChanged(1)
    \/ ListenerGet(1)
    \/ ListenerTimeout(1)
SpecSoft == InitSoft /\ [][NextSoft]_vars

\* Two Store Managers on an empty or populated area, no change event
\* delivered yet: 1 deletes a starter tag and clears all data, 2 adds a
\* bookmark.
InitClear == InitWith({EmptyStore, Seeded}, {1, 2}, {}, {}, MaxFail)
NextClear ==
    \/ deleteTag(1, NX)
    \/ clearAllData(1)
    \/ addBookmark(2, 1, <<NX>>)
    \/ \E i \in {1, 2} :
         \/ GetDataGet(i)
         \/ InitializeGet(i)
         \/ InitializeSetInitial(i)
         \/ OperationSet(i)
         \/ ClearAllDataClear(i)
SpecClear == InitClear /\ [][NextClear]_vars

\* One Store Manager with a subscriber on an area that lacks bookmarks, tags
\* or settings, with and without a ledger: reads, the change feed on.
InitInit ==
    InitWith({EmptyStore, Installed, Suppressed(<<>>), Suppressed(<<NX>>),
              Suppressed(<<NY, NX>>)}, {1}, {1}, {1}, MaxFail)
NextInit ==
    \/ getData(1)
    \/ GetTagsCall(1)
    \/ GetDataGet(1)
    \/ InitializeGet(1)
    \/ InitializeSetInitial(1)
    \/ OnChanged(1)
    \/ ListenerGet(1)
    \/ ListenerTimeout(1)
SpecInit == InitInit /\ [][NextInit]_vars

\* Well-formed Documents that a repair pass would change: the index counts
\* a tag twice for one bookmark (addBookmark with ['A', 'a']) and holds
\* zero-count starter tags; a starter tag is deleted and ledgered.
Doubled == addBookmarkBody(InitialData(EmptyStore), [title |-> 1, tags |-> <<NA, Na>>], 1).doc
Unstarred == deleteTagBody(Seeded, [name |-> NX]).doc

\* One Store Manager with a subscriber on an area of any shape: the four read
\* operations, calls of the area failing, the change feed on.
InitReads ==
    InitWith({EmptyStore, OldShape, Seeded, Doubled, Unstarred}, {1}, {1}, {1}, 0)
NextReads ==
    \/ getData(1)
    \/ GetBookmarksCall(1)
    \/ GetTagsCall(1)
    \/ \E q \in {0, 1}, tags \in {<<>>, <<NA>>} : SearchBookmarksCall(1, q, tags)
    \/ GetDataGet(1)
    \/ InitializeGet(1)
    \/ InitializeSetInitial(1)
    \/ InitializeSetFallback(1)
    \/ GetDataSet(1)
    \/ OnChanged(1)
    \/ ListenerGet(1)
    \/ ListenerTimeout(1)
SpecReads == InitReads /\ [][NextReads]_vars

\* Two Store Managers with their change feeds on an empty area (two surfaces
\* opened on a fresh profile): both read.
InitBoot == InitWith({EmptyStore}, {1, 2}, {1, 2}, {1, 2}, MaxFail)
NextBoot ==
    \/ getData(1)
    \/ GetTagsCall(2)
    \/ \E i \in {1, 2} :
         \/ GetDataGet(i)
         \/ InitializeGet(i)
         \/ InitializeSetInitial(i)
         \/ InitializeSetRepaired(i)
         \/ OnChanged(i)
         \/ ListenerGet(i)
         \/ ListenerTimeout(i)
SpecBoot == InitBoot /\ [][NextBoot]_vars

\* One Store Manager with its change feed on a populated area: callbacks are
\* subscribed and unsubscribed while addBookmark calls write.
InitSubs == InitWith({Seeded}, {1}, {1}, {}, MaxFail)
NextSubs ==
    \/ \E c \in Callbacks : addListener(1, c)
    \/ \E h \in 1..MaxHandles : Unsubscribe(1, h)
    \/ addBookmark(1, 1, <<>>)
    \/ GetDataGet(1)
    \/ OperationSet(1)
    \/ OnChanged(1)
    \/ ListenerGet(1)
    \/ ListenerTimeout(1)
SpecSubs == InitSubs /\ [][NextSubs]_vars

\* One Store Manager with a subscriber on an empty or populated area, the only
\* writer, its calls awaited one by one: mutating operations and the reads
\* getBookmarks() and getTags(), the change feed on.
InitOwn == InitWith({EmptyStore, Seeded}, {1}, {1}, {1}, MaxFail)
NextOwn ==
    \/ addBookmark(1, 1, <<NA>>)
    \/ deleteBookmark(1, 8)
    \/ deleteTag(1, NX)
    \/ clearAllData(1)
    \/ GetBookmarksCall(1)
    \/ GetTagsCall(1)
    \/ GetDataGet(1)
    \/ InitializeGet(1)
    \/ InitializeSetInitial(1)
    \/ OperationSet(1)
    \/ ClearAllDataClear(1)
    \/ OnChanged(1)
    \/ ListenerGet(1)
    \/ ListenerTimeout(1)
SpecOwn == InitOwn /\ [][NextOwn]_vars

\* Two Store Managers on one populated area, 1 with a subscriber and its
\* change feed: 1 adds a bookmark tagged NX while 2 deletes the tag NX.
InitShare == InitWith({Seeded}, {1, 2}, {1}, {1}, MaxFail)
NextShare ==
    \/ addBookmark(1, 1, <<NX>>)
    \/ deleteTag(2, NX)
    \/ \E i \in {1, 2} :
         \/ GetDataGet(i)
         \/ OperationSet(i)
    \/ OnChanged(1)
    \/ ListenerGet(1)
    \/ ListenerTimeout(1)
SpecShare == InitShare /\ [][NextShare]_vars

\* Two Store Managers on one populated area, 1 with a subscriber and its
\* change feed: 1 adds a bookmark and reads, 2 deletes the tag NX.
InitStale == InitWith({Seeded}, {1, 2}, {1}, {1}, MaxFail)
NextStale ==
    \/ addBookmark(1, 1, <<NY>>)
    \/ getData(1)
    \/ deleteTag(2, NX)
    \/ \E i \in {1, 2} :
         \/ GetDataGet(i)
         \/ OperationSet(i)
    \/ OnChanged(1)
    \/ ListenerGet(1)
    \/ ListenerTimeout(1)
SpecStale == InitStale /\ [][NextStale]_vars

\* One Store Manager with its change feed on a populated area: addBookmark
\* calls write, a throwing callback may be subscribed after the first, and the
\* calls of the area may fail. What the platform guarantees: the area answers
\* every storage.get, and a timer that was set fires.
InitGuard == InitWith({Seeded}, {1}, {1}, {1}, 0)
NextGuard ==
    \/ addListener(1, 3)
    \/ addBookmark(1, 1, <<>>)
    \/ GetDataGet(1)
    \/ OperationSet(1)
    \/ OnChanged(1)
    \/ ListenerGet(1)
    \/ ListenerTimeout(1)
SpecGuard ==
    /\ InitGuard
    /\ [][NextGuard]_vars
    /\ WF_vars(ListenerGet(1))
    /\ WF_vars(ListenerTimeout(1))

\* Two Store Managers on an empty area, no change feed: 1 reads while 2 adds
\* bookmarks tagged A and deletes the first, so that the initialization of 1
\* can find the area complete and run the repair pass.
InitRecount == InitWith({EmptyStore}, {1, 2}, {}, {}, MaxFail)
NextRecount ==
    \/ getData(1)
    \/ addBookmark(2, 1, <<NA>>)
    \/ deleteBookmark(2, 1)
    \/ \E i \in {1, 2} :
         \/ GetDataGet(i)
         \/ InitializeGet(i)
         \/ InitializeSetInitial(i)
         \/ InitializeSetRepaired(i)
         \/ OperationSet(i)
SpecRecount == InitRecount /\ [][NextRecount]_vars

\* Tag names of an imported file and of the store, as character sequences.
News == <<"N", "e", "w", "s">>
NEWS == <<"N", "E", "W", "S">>
NewsLower == <<"n", "e", "w", "s">>
NewsLetter == <<"n", "e", "w", "s", "-", "l", "e", "t", "t", "e", "r">>
Newslettr == <<"n", "e", "w", "s", "l", "e", "t", "t", "r">>
NewsLettr == <<"n", "e", "w", "s", "-", "l", "e", "t", "t", "r">>
Newsletter == <<"n", "e", "w", "s", "l", "e", "t", "t", "e", "r">>
Newslett == <<"n", "e", "w", "s", "l", "e", "t", "t">>
Sports == <<"S", "p", "o", "r", "t", "s">>
Sport == <<"S", "p", "o", "r", "t">>
Newss == <<"N", "e", "w", "s", "s">>
NewsletterCap == <<"N", "e", "w", "s", "l", "e", "t", "t", "e", "r">>
IncomingNames ==
    {NEWS, Newslettr, Sports, News, NewsLower, NewsLettr, Newsletter, Newss, NewsLetter,
     NewsletterCap, <<>>}
ExistingLists ==
    {<<News, NewsLetter>>, <<NewsLetter, News>>, <<>>, <<Sport>>, <<Newslett>>,
     <<Newslettr, NewsLettr>>, <<NewsLettr, Newslettr>>, <<NewsLower, News>>,
     <<News, NEWS>>, <<Newsletter, Newslettr, NewsLettr>>}

\* The importer classifies one tag of an imported file against the tag names
\* of the store.
InitImport ==
    /\ InitStore({EmptyStore}, {1}, {}, {}, MaxFail)
    /\ imp \in {[importTag |-> t, existingTags |-> e, conflict |-> <<>>] :
                  t \in IncomingNames, e \in ExistingLists}
NextImport == AnalyzeCall
SpecImport == InitImport /\ [][NextImport]_vars

\* ------------------------------------------------------------------ claims
\* the number of non-deleted bookmarks of d whose tag list holds a name with key k
Users(d, k) ==
    Cardinality({n \in 1..Len(d.bookmarks.v) :
                   /\ ~d.bookmarks.v[n].deleted
                   /\ \E m \in 1..Len(d.bookmarks.v[n].tags) :
                        normalizeTag(d.bookmarks.v[n].tags[m]) = k})
CountsAgree(d) ==
    \A k \in DOMAIN d.tags.v : d.tags.v[k].count = Users(d, normalizeTag(d.tags.v[k].name))

\* C1: after any sequence of addBookmark, updateBookmark and deleteBookmark on
\* one Store Manager, every tag of the persisted tag index has a count equal
\* to the number of non-deleted bookmarks whose normalized tag list holds its
\* key.
C1_CountsMatchBookmarks == WellFormed(storage) => CountsAgree(storage)

\* C2: after a deleteTag of a starter tag has succeeded, and until clear()
\* erases the ledger, no run of initializeStorage (either branch) puts a tag
\* under that starter key into a tag index that did not hold it.
C2_StarterStaysDeleted ==
    [][\A i \in live :
         (op[i].pc = "get2" /\ op'[i].pc \in {"setI", "setR"})
         => \A k \in ledgered :
              HasKey(op'[i].data[1].tags.v, k) => HasKey(getTags(storage), k)]_vars

\* the bookmark id of d carries an update
Updated(d, id) ==
    \E n \in 1..Len(d.bookmarks.v) : d.bookmarks.v[n].id = id /\ d.bookmarks.v[n].upd
\* both Store Managers have completed an updateBookmark whose getData() had
\* returned a Document without the other's update
Overlapped ==
    /\ \A i \in {1, 2} : res[i].out = "ok" /\ res[i].name = "updateBookmark"
    /\ ~Updated(res[1].pre[1], 9)
    /\ ~Updated(res[2].pre[1], 8)

\* C3: two Store Managers, each with an updateBookmark on a different id: when
\* the two read-modify-write sequences overlap (neither has read the other's
\* update), the persisted Document holds only one of the two updates, the one
\* of the later whole-Document write.
C3_LaterWriteWins ==
    Overlapped => ~(Updated(storage, 8) /\ Updated(storage, 9))
C3_LostUpdate ==
    /\ Overlapped
    /\ nops = 2
    /\ \A i \in {1, 2} : op[i].pc = "idle"
    /\ Updated(storage, 8) # Updated(storage, 9)

\* C4: every Document that getData() has returned and every Document handed
\* to the subscribers is well-formed: bookmarks a list, tags a map, settings
\* present.
C4_OnlyWellFormedSeen ==
    \A i \in live :
        /\ delivered[i] # Null => WellFormed(delivered[i][1])
        /\ (res[i].out = "ok" /\ res[i].name = "getData") => WellFormed(res[i].ret[1])

\* no operation in flight, no change event undelivered, no reload under way
Quiescent ==
    \A i \in live : op[i].pc = "idle" /\ lis[i] = "idle" /\ pending[i] = 0
\* an operation of some Store Manager has written and completed
WriteCompleted == \E i \in live : res[i].out = "ok" /\ res[i].writes > 0

\* C5: once a write has completed and everything it caused has run to its
\* end, every Store Manager with subscribers has last delivered the persisted
\* Document, and its cache is null or equal to the persisted Document.
C5_SubscribersConverge ==
    (Quiescent /\ WriteCompleted) =>
        \A i \in hear :
            listeners[i] # <<>> =>
                /\ delivered[i] = Some(storage)
                /\ cache[i] = Null \/ cache[i] = Some(storage)

\* C6: a getData() that follows a getData() with no mutating operation in
\* between returns the same Document and writes nothing; no getData() lands
\* more than one write.
C6_SecondReadIsFirstRead ==
    \A i \in live :
        (res[i].out = "ok" /\ res[i].name = "getData") =>
            /\ res[i].writes <= 1
            /\ res[i].prev # Null => (res[i].ret = res[i].prev /\ res[i].writes = 0)
\* the second getData() had to read the area again: the change event of the
\* first one's write had emptied the cache
C6_SecondReadFromStorage ==
    /\ res[1].out = "ok"
    /\ res[1].name = "getData"
    /\ res[1].prev # Null
    /\ res[1].via = "read"
    /\ storage # Seeded

\* the count getTags() shows for the key k (0 for an absent tag)
CountOf(d, k) == IF HasKey(getTags(d), k) THEN getTags(d)[k].count ELSE 0
\* the records of getBookmarks() on post that were not in pre and carry the draft
Added(pre, post, a) ==
    {n \in 1..Len(getBookmarks(post)) :
        /\ getBookmarks(post)[n].title = a.title
        /\ getBookmarks(post)[n].tags = a.tags
        /\ \A m \in 1..Len(pre.bookmarks.v) :
              pre.bookmarks.v[m].id # getBookmarks(post)[n].id}

\* C7: when addBookmark(draft) has completed, getBookmarks() holds exactly one
\* record with the draft's fields under a new id, and every tag named in the
\* draft is in getTags() with a count one higher than before the call.
C7_AddCountsEachTagOnce ==
    \A i \in live :
        (res[i].out = "ok" /\ res[i].name = "addBookmark") =>
            /\ Cardinality(Added(res[i].pre[1], res[i].ret[1], res[i].a)) = 1
            /\ \A m \in 1..Len(res[i].a.tags) :
                  LET k == normalizeTag(res[i].a.tags[m])
                  IN  /\ HasKey(getTags(res[i].ret[1]), k)
                      /\ CountOf(res[i].ret[1], k) = CountOf(res[i].pre[1], k) + 1

\* C8: no getData() is rejected because a read of the area failed: after a
\* failed read it returns the empty well-formed fallback Document, whether or
\* not the write of that Document lands.
C8_ReadFailureIsMasked ==
    \A i \in live :
        res[i].out # "none" /\ res[i].name = "getData" =>
            /\ res[i].out # "ReadError"
            /\ res[i].via = "fallback" =>
                  (res[i].out = "ok" /\ res[i].ret = Some(FallbackData))

\* the operation of i has ended in this step
Ended(i) ==
    /\ op'[i].pc = "idle"
    /\ op[i].pc # "idle" \/ (nops' > nops /\ \A j \in live \ {i} : op'[j] = op[j])
Writers == {"addBookmark", "updateBookmark", "deleteBookmark", "deleteTag", "createTag"}

\* C9 as stated: an addBookmark, updateBookmark, deleteBookmark, deleteTag or
\* createTag during which any write of the area failed does not complete as a
\* success.
C9_AnyWriteFailureRejects ==
    \A i \in live :
        (res[i].out # "none" /\ res[i].name \in Writers /\ res[i].lost # {})
            => res[i].out # "ok"
\* C9: an addBookmark, updateBookmark, deleteBookmark, deleteTag or createTag
\* whose own storage.set of the changed Document failed is rejected with that
\* error; it is the failed write of initializeStorage that the fallback masks.
C9_OwnWriteFailureRejects ==
    \A i \in live :
        (res[i].out # "none" /\ res[i].name \in Writers /\ "set" \in res[i].lost)
            => res[i].out = "WriteError"
C9_OwnWriteFailed ==
    /\ res[1].out = "WriteError"
    /\ res[1].name \in Writers
    /\ "set" \in res[1].lost

\* C10: on a well-formed Document, updateBookmark and deleteBookmark of an id
\* that is not in the list and deleteTag of a name whose key is not in the
\* index end with NotFound, createTag of a name whose key is in the index ends
\* with AlreadyExists; when the Document came well-formed from the cache or
\* from the area, such an end leaves the area and the cached Document as they
\* were, and the operation has issued no write.
C10_RefusalsChangeNothing ==
    [][\A i \in live :
         (Ended(i) /\ res'[i].pre # Null /\ WellFormed(res'[i].pre[1])) =>
            LET r == res'[i]
                d == r.pre[1]
            IN  /\ (r.name \in {"updateBookmark", "deleteBookmark"}
                     /\ FindIndex(d.bookmarks.v, r.a.id) = 0) => r.out = "NotFound"
                /\ (r.name = "deleteTag" /\ ~HasKey(d.tags.v, normalizeTag(r.a.name)))
                      => r.out = "NotFound"
                /\ (r.name = "createTag" /\ HasKey(d.tags.v, normalizeTag(r.a.name)))
                      => r.out = "AlreadyExists"
                /\ (r.out \in {"NotFound", "AlreadyExists"} /\ r.via \in {"cache", "read"}) =>
                      /\ storage' = storage
                      /\ cache'[i] = r.pre
                      /\ r.via = "cache" => cache'[i] = cache[i]
                      /\ r.writes = 0
                      /\ r.lost = {}]_vars
C10_Refused ==
    /\ res[1].out = "AlreadyExists"
    /\ res[1].via = "cache"
    /\ WellFormed(res[1].pre[1])
    /\ cache[1] = res[1].pre

\* the three parts of deleteTag(name) as a Document d shows them: the tag is
\* out of the index, no bookmark lists the name, and for a starter name the
\* ledger holds the name and its key
TagGone(d, name) == ~HasKey(getTags(d), normalizeTag(name))
NameStripped(d, name) ==
    \A n \in 1..Len(d.bookmarks.v) : ~Includes(d.bookmarks.v[n].tags, name)
LedgerHolds(d, name) ==
    Includes(DEFAULT_TAGS, name) =>
        (Includes(LedgerOr(d), name) /\ Includes(LedgerOr(d), normalizeTag(name)))

\* C11: a deleteTag(name) changes the area in one write that shows the tag
\* removal, the stripping and the ledger update together; a write it causes
\* before that one (getData's initialization) carries the Document as getData
\* returned it, with none of the three parts, and a deleteTag that found the
\* Document in the cache or the area has written exactly once.
C11_DeleteTagWritesOnce ==
    [][\A i \in live :
         (op[i].pc # "idle" /\ op[i].name = "deleteTag" /\ storage' # storage) =>
            IF op[i].pc = "set"
            THEN /\ TagGone(storage', op[i].a.name)
                 /\ NameStripped(storage', op[i].a.name)
                 /\ LedgerHolds(storage', op[i].a.name)
                 /\ res'[i].out = "ok"
                 /\ res'[i].via \in {"cache", "read"} => res'[i].writes = 1
            ELSE /\ op'[i].pc = "set" => Some(storage') = op'[i].pre
                 /\ op'[i].pc = "idle" => Some(storage') = res'[i].pre]_vars
\* a deleteTag of a starter tag that a bookmark carried has landed
C11_DeleteTagLanded ==
    /\ res[1].out = "ok"
    /\ res[1].name = "deleteTag"
    /\ res[1].a.name = NX
    /\ \E n \in 1..Len(res[1].pre[1].bookmarks.v) :
          Includes(res[1].pre[1].bookmarks.v[n].tags, NX)
    /\ storage = res[1].ret[1]

\* C12: when deleteTag(name) has succeeded, no bookmark of the Document it
\* persisted, deleted or not, lists a name whose key is the key of name.
C12_StrippedByKey ==
    \A i \in live :
        (res[i].out = "ok" /\ res[i].name = "deleteTag") =>
            \A n \in 1..Len(res[i].ret[1].bookmarks.v) :
                \A m \in 1..Len(res[i].ret[1].bookmarks.v[n].tags) :
                    normalizeTag(res[i].ret[1].bookmarks.v[n].tags[m])
                        # normalizeTag(res[i].a.name)

\* how often the ledger of d holds e
TimesInLedger(d, e) == Len(SelectSeq(LedgerOr(d), LAMBDA t : t = e))
\* d shows the starter tag name deleted: out of the index, the name and its
\* key in the ledger, each once
ShownDeleted(d, name) ==
    /\ TagGone(d, name)
    /\ TimesInLedger(d, name) = 1
    /\ TimesInLedger(d, normalizeTag(name)) = 1
StarterDeleted(r) ==
    r.out = "ok" /\ r.name = "deleteTag" /\ Includes(DEFAULT_TAGS, r.a.name)

\* C13: a deleteTag of a starter tag name that succeeds leaves, in the
\* Document it returns to the cache and in the area, the tag out of the index
\* and the name and its key in the ledger, each once, however often the tag was
\* re-created and deleted before; the getData() that follows returns a
\* Document that shows the same.
C13_StarterLedgeredOnce ==
    [][\A i \in live :
         (Ended(i) /\ res'[i].out = "ok") =>
            /\ StarterDeleted(res'[i]) =>
                  /\ ShownDeleted(res'[i].ret[1], res'[i].a.name)
                  /\ ShownDeleted(storage', res'[i].a.name)
            /\ (res'[i].name = "getData" /\ StarterDeleted(res[i])) =>
                  ShownDeleted(res'[i].ret[1], res[i].a.name)]_vars
\* the starter tag has been deleted a second time, after its re-creation
C13_DeletedAgain ==
    /\ StarterDeleted(res[1])
    /\ Includes(LedgerOr(res[1].pre[1]), res[1].a.name)
    /\ ShownDeleted(storage, res[1].a.name)

\* C14: no step removes an entry from the ledger of the area, except the
\* storage.clear() and the set that follows it of a clearAllData.
C14_LedgerAppendOnly ==
    [][(\A i \in live : op[i].pc = "idle" \/ op[i].name # "clearAllData") =>
         \A n \in 1..Len(LedgerOr(storage)) :
             Includes(LedgerOr(storage'), LedgerOr(storage)[n])]_vars

\* the records of the list bms with the identifier id
WithId(bms, id) == SelectSeq(bms, LAMBDA b : b.id = id)

\* C15: when deleteBookmark(id) has succeeded, the record is still in the
\* persisted list with its deleted flag set, getBookmarks() and
\* searchBookmarks() do not return it, and every tag of its tag list that the
\* index held has its count one lower, or is out of the index when that is 0.
C15_SoftDeleteCountsDown ==
    \A i \in live :
        (res[i].out = "ok" /\ res[i].name = "deleteBookmark") =>
            LET pre == res[i].pre[1]
                post == res[i].ret[1]
                old == WithId(pre.bookmarks.v, res[i].a.id)[1]
            IN  /\ Len(post.bookmarks.v) = Len(pre.bookmarks.v)
                /\ WithId(post.bookmarks.v, res[i].a.id) = <<[old EXCEPT !.deleted = TRUE]>>
                /\ WithId(getBookmarks(post), res[i].a.id) = <<>>
                /\ WithId(searchBookmarks(post, 0, <<>>), res[i].a.id) = <<>>
                /\ WithId(searchBookmarks(post, old.title, old.tags), res[i].a.id) = <<>>
                /\ \A m \in 1..Len(old.tags) :
                      LET k == normalizeTag(old.tags[m])
                      IN  HasKey(getTags(pre), k) =>
                            IF CountOf(pre, k) - 1 <= 0 THEN ~HasKey(getTags(post), k)
                            ELSE CountOf(post, k) = CountOf(pre, k) - 1

\* a clearAllData of i resolves in this step
ClearCompletes(i) ==
    /\ op[i].pc = "set" /\ op[i].name = "clearAllData"
    /\ res'[i].out = "ok" /\ op'[i].pc = "idle"
\* d holds no bookmarks, no tags, no ledger entry and the default settings
Fresh(d) ==
    /\ d.bookmarks = Field("array", <<>>)
    /\ d.tags = Field("map", EmptyMap)
    /\ LedgerOr(d) = <<>>
    /\ d.settings = DefaultSettings
\* when a clearAllData resolves, the area and the cache hold a fresh Document
ClearLeavesFresh ==
    [][\A i \in live :
         ClearCompletes(i) => Fresh(storage') /\ cache'[i] # Null /\ Fresh(cache'[i][1])]_vars

\* C16: when a clearAllData resolves, the area and the cache hold a Document
\* with no bookmarks, no tags, no ledger entry and the default settings; and a
\* step that leaves the ledger of the area empty where it held an entry is a
\* storage.clear() of a clearAllData.
C16_OnlyClearEmptiesLedger ==
    [][/\ \A i \in live :
            ClearCompletes(i) =>
                Fresh(storage') /\ cache'[i] # Null /\ Fresh(cache'[i][1])
       /\ (LedgerOr(storage) # <<>> /\ LedgerOr(storage') = <<>>) =>
            \E i \in live : op[i].pc = "clear" /\ op'[i].pc = "set"]_vars

\* the starter tags that the ledger led does not hold, raw or normalized
Allowed(led) ==
    {n \in 1..Len(DEFAULT_TAGS) :
       ~Includes(led, DEFAULT_TAGS[n]) /\ ~Includes(led, normalizeTag(DEFAULT_TAGS[n]))}
\* the tag index m holds exactly those, each at count 0
StartersOnly(m, led) ==
    /\ DOMAIN m = {normalizeTag(DEFAULT_TAGS[n]) : n \in Allowed(led)}
    /\ \A n \in Allowed(led) : m[normalizeTag(DEFAULT_TAGS[n])] = Tag(DEFAULT_TAGS[n], 0)

\* C17: with one Store Manager on an area that lacks bookmarks, tags or
\* settings, the write of initializeStorage leaves in the area an empty
\* bookmark list, the ledger it found ([] where there was none) and exactly
\* the starter tags the ledger does not hold (raw or normalized), each at
\* count 0; every getData() and getTags() that follows returns that tag index.
C17_InitializePersistsStarters ==
    [][/\ (op[1].pc = "setI" /\ op'[1].pc # "setI") =>
            /\ storage'.bookmarks = Field("array", <<>>)
            /\ storage'.ledger = Field("array", LedgerOr(storage))
            /\ storage'.tags.k = "map"
            /\ StartersOnly(storage'.tags.v, LedgerOr(storage))
            /\ storage'.settings = DefaultSettings
       /\ res'[1].out = "ok" =>
            /\ res'[1].ret[1].tags.k = "map"
            /\ StartersOnly(getTags(res'[1].ret[1]), LedgerOr(storage'))
            /\ getBookmarks(res'[1].ret[1]) = <<>>]_vars
\* on an area whose ledger held the starter tag x, a getData() after the one
\* that initialized has returned the index without x
C17_ReadAfterInitialize ==
    /\ res[1].out = "ok" /\ res[1].name = "getData"
    /\ res[1].via \in {"cache", "read"}
    /\ LedgerOr(storage) = <<NX>>
    /\ storage.settings = DefaultSettings
    /\ DOMAIN getTags(res[1].ret[1]) = {NY}

\* C18: getData() enters initializeStorage only on a value of the area that
\* lacks bookmarks, tags or settings; and while the area holds a well-formed
\* Document, no step of a read operation (getData, getBookmarks, getTags,
\* searchBookmarks) writes to the area, and each one that resolves has got
\* the bookmarks and the tag index of the area as they are: no tag added, no
\* count recomputed, no tag removed.
C18_ReadsLeaveWellFormedAlone ==
    [][\A i \in live :
         /\ (op[i].pc # "get2" /\ op'[i].pc = "get2") => Incomplete(storage)
         /\ WellFormed(storage) =>
              /\ storage' = storage
              /\ (res'[i] # res[i] /\ res'[i].out = "ok") =>
                   /\ res'[i].ret[1].tags = storage.tags
                   /\ res'[i].ret[1].bookmarks = storage.bookmarks]_vars

\* the callbacks subscribed through the handles hs: those of the handles never
\* called, in the order of the addListener calls, each callback once
RECURSIVE Subscribed(_)
Subscribed(hs) ==
    IF hs = <<>> THEN <<>>
    ELSE LET rest == Subscribed(SelectSeq(Tail(hs), LAMBDA h : h.cb # Head(hs).cb))
         IN  IF \E n \in 1..Len(hs) : hs[n].cb = Head(hs).cb /\ ~hs[n].called
             THEN <<Head(hs).cb>> \o rest
             ELSE rest
\* the handler of i ends a reload that loaded a Document
CycleLoads(i) == lis[i] = "get" /\ lis'[i] = "timer" /\ cache'[i] = Some(storage)

\* C19: a propagation cycle that loads a Document calls every callback that
\* was added and whose unsubscribe function was never called, once, with that
\* Document, in the order of subscription, and calls no callback all of whose
\* unsubscribe functions were called.
C19_EverySubscriberOnceInOrder ==
    [][\A i \in hear :
         CycleLoads(i) =>
             /\ invoked'[i] = Some(Subscribed(handles[i]))
             /\ Subscribed(handles[i]) # <<>> => delivered'[i] = Some(storage)
             /\ \A n \in 1..Len(handles[i]) :
                    (\A m \in 1..Len(handles[i]) :
                        handles[i][m].cb = handles[i][n].cb => handles[i][m].called)
                    => ~Includes(invoked'[i][1], handles[i][n].cb)]_vars

\* an operation of i ends in this step
Ends(i) == op'[i].pc = "idle" /\ (op[i].pc # "idle" \/ nops' # nops)

\* C20: with one Store Manager as the only writer and every call awaited
\* before the next: a mutating operation that resolves has left its Document
\* in the area, and every getBookmarks() and getTags() resolves with the
\* bookmarks and the tags of the area, which no read changes once a
\* mutating operation has completed (the area is complete from then on),
\* whatever the state of the change-propagation handler.
C20_ReadYourWrites ==
    [][/\ Ends(1) =>
            /\ ~Mutating(res'[1].name) => res'[1].out = "ok"
            /\ res'[1].out = "ok" =>
                  /\ getBookmarks(res'[1].ret[1]) = getBookmarks(storage')
                  /\ getTags(res'[1].ret[1]) = getTags(storage')
       /\ (op[1].pc # "idle" /\ ~Mutating(op[1].name) /\ storage' # storage) =>
            Incomplete(storage)]_vars
\* getTags() has read the area itself, the handler having emptied the cache
\* for the change event of the addBookmark before, and shows the new tag
C20_ReadDuringPropagation ==
    /\ res[1].out = "ok" /\ res[1].name = "getTags" /\ res[1].via = "read"
    /\ lis[1] = "get"
    /\ HasKey(getTags(res[1].ret[1]), Na)
    /\ nextId > 1

\* the larger of two lengths
MaxLen(a, b) == IF Len(a) > Len(b) THEN Len(a) ELSE Len(b)
\* (max_len - edit_distance) / max_len > 0.8, in integers
SimilarTo(a, b) ==
    MaxLen(a, b) = 0 \/ 5 * (MaxLen(a, b) - levenshteinDistance(a, b)) > 4 * MaxLen(a, b)
IsExact(t, e) == \E n \in 1..Len(e) : e[n] = t
IsCase(t, e) == \E n \in 1..Len(e) : toLowerCase(e[n]) = toLowerCase(t)
IsSimilar(t, e) == \E n \in 1..Len(e) : SimilarTo(t, e[n])
\* the classifier has returned c for importTag t and existingTags e
Classified(t, e, c) == imp = [importTag |-> t, existingTags |-> e, conflict |-> <<c>>]

\* C21: the TagConflict has one of the four types, by precedence: exact
\* (action merge) iff the name is one of the existing names; else case
\* (merge, suggested name the first existing name equal ignoring case) iff
\* such a name exists; else similar (merge) iff some existing name has a
\* similarity above 0.8; else new (action keep). For [News, news-letter]:
\* NEWS is case onto News, newslettr is similar, Sports is new.
C21_ClassifiedByPrecedence ==
    imp.conflict # <<>> =>
        LET t == imp.importTag
            e == imp.existingTags
            c == imp.conflict[1]
        IN  /\ c.type \in {"exact", "case", "similar", "new"}
            /\ c.type = "exact" <=> IsExact(t, e)
            /\ c.type = "case" <=> (~IsExact(t, e) /\ IsCase(t, e))
            /\ c.type = "similar" <=> (~IsExact(t, e) /\ ~IsCase(t, e) /\ IsSimilar(t, e))
            /\ c.type = "new" <=> (~IsExact(t, e) /\ ~IsCase(t, e) /\ ~IsSimilar(t, e))
            /\ c.action = IF c.type = "new" THEN "keep" ELSE "merge"
            /\ c.type = "case" =>
                 /\ c.suggestedName # <<>>
                 /\ toLowerCase(c.suggestedName[1]) = toLowerCase(t)
                 /\ IsExact(c.suggestedName[1], e)
            /\ (t = NEWS /\ e = <<News, NewsLetter>>) =>
                 c.type = "case" /\ c.suggestedName = <<News>>
            /\ (t = Newslettr /\ e = <<News, NewsLetter>>) => c.type = "similar"
            /\ (t = Sports /\ e = <<News, NewsLetter>>) => c.type = "new"
\* a name that differs from an existing name only in case, and is similar to
\* it as well, has been classified as a case variant
C21_CaseBeforeSimilar ==
    /\ imp.conflict # <<>>
    /\ imp.importTag = NewsletterCap
    /\ IsSimilar(imp.importTag, imp.existingTags)
    /\ imp.conflict[1].type = "case"
    /\ imp.conflict[1].suggestedName = <<Newsletter>>

\* similarity a is at least similarity b
AtLeast(a, b) == a.num * b.den >= b.num * a.den
\* position of the first existing name whose similarity to t is the highest
MostSimilarIndex(t, e) ==
    CHOOSE n \in 1..Len(e) :
        /\ \A k \in 1..Len(e) : AtLeast(calculateSimilarity(t, e[n]), calculateSimilarity(t, e[k]))
        /\ \A k \in 1..(n - 1) : ~AtLeast(calculateSimilarity(t, e[k]), calculateSimilarity(t, e[n]))

\* C27: for a similar classification the suggested name is the existing name
\* of the highest similarity to the incoming name; among several of that
\* similarity, the first enumerated.
C27_SuggestsMostSimilar ==
    (imp.conflict # <<>> /\ imp.conflict[1].type = "similar") =>
        imp.conflict[1].suggestedName =
            <<imp.existingTags[MostSimilarIndex(imp.importTag, imp.existingTags)]>>

\* C22: a Document goes to the subscribers of a Store Manager only as the
\* value the key-value area holds at the moment of the reload read: all its
\* keys (bookmarks, tag index, ledger, settings) are those of that one value.
C22_DeliveredIsOneAreaValue ==
    [][\A i \in live : delivered'[i] # delivered[i] => delivered'[i] = Some(storage)]_vars
\* a Document was delivered between the writes of the two Store Managers:
\* the area has since changed in bookmarks and in tags
C22_DeliveredBetweenWrites ==
    /\ delivered[1] # Null
    /\ res[1].out = "ok"
    /\ res[2].out = "ok"
    /\ delivered[1][1].bookmarks # storage.bookmarks
    /\ delivered[1][1].tags # storage.tags

\* C23: a Store Manager has a propagation cycle in progress exactly while its
\* guard is set, a reload starts only with the guard clear, and a change
\* notification handled while the guard is set (cycle or settle delay) is
\* consumed without a reload, without a change of the cache and without a
\* call of a subscriber.
C23_NotificationDroppedDuringCycle ==
    [][\A i \in live :
        /\ isProcessing'[i] <=> lis'[i] # "idle"
        /\ (lis'[i] = "get" /\ lis[i] # "get") => ~isProcessing[i]
        /\ (isProcessing[i] /\ pending'[i] < pending[i]) =>
              /\ lis'[i] = lis[i]
              /\ isProcessing'[i]
              /\ cache'[i] = cache[i]
              /\ delivered'[i] = delivered[i]
              /\ invoked'[i] = invoked[i]
              /\ storage' = storage]_vars
\* the notification of the other Store Manager's write was consumed during
\* the settle delay: the cache still holds the Document reloaded before it
C23_DroppedInSettleDelay ==
    /\ lis[1] = "timer"
    /\ pending[1] = 0
    /\ op[1].pc = "idle"
    /\ res[2].out = "ok"
    /\ cache[1] # Null
    /\ cache[1] # Some(storage)

\* C24: a propagation cycle starts by setting the cache to null, and while
\* its reload read is in flight a getData() call that starts finds no cache
\* and reads the key-value area.
C24_ReadDuringReloadReadsArea ==
    [][\A i \in live :
        /\ (lis[i] = "idle" /\ lis'[i] = "get") => cache'[i] = Null
        /\ (lis[i] = "get" /\ op[i].pc = "idle" /\ op'[i] # op[i])
              => op'[i].pc \in {"get1", "clear"}
        /\ (lis[i] = "get" /\ op[i].pc = "idle" /\ res'[i] # res[i])
              => res'[i].via # "cache"]_vars

\* the starter tags named in the ledger of the area are absent from d
NoDeletedStarter(d) ==
    \A n \in 1..Len(DEFAULT_TAGS) :
        (storage.ledger.k = "array" /\ Includes(storage.ledger.v, DEFAULT_TAGS[n]))
            => (d.tags.k = "map" => ~HasKey(d.tags.v, DEFAULT_TAGS[n]))

\* C25: the steps of a propagation cycle leave the key-value area and every
\* operation as they are and cause no change notification; a cycle starts
\* only by consuming one; and the reload puts the value of the area into the
\* cache as it is, so with the starter tags the area has and no other.
C25_CycleNeverWrites ==
    [][\A i \in live : lis'[i] # lis[i] =>
         /\ storage' = storage
         /\ op' = op
         /\ \A j \in live : pending'[j] <= pending[j]
         /\ (lis'[i] = "get") => pending'[i] < pending[i]
         /\ (lis[i] = "get" /\ cache'[i] # cache[i]) => cache'[i] = Some(storage)]_vars
\* a starter tag was deleted and its cycle has reloaded: the cache holds the
\* area's Document, without the tag
C25_ReloadedWithoutDeletedStarter ==
    /\ lis[1] = "timer"
    /\ storage.ledger.k = "array"
    /\ Includes(storage.ledger.v, NX)
    /\ cache[1] = Some(storage)
    /\ delivered[1] = Some(storage)
    /\ NoDeletedStarter(cache[1][1])
    /\ HasKey(storage.tags.v, NY)

\* C26: whenever the guard of a Store Manager is set it is released later,
\* also when the reload read is rejected or a callback throws, and a change
\* notification handled with the guard released starts a cycle.
C26_GuardReleased ==
    /\ isProcessing[1] ~> ~isProcessing[1]
    /\ [][(~isProcessing[1] /\ pending'[1] < pending[1]) => lis'[1] = "get"]_vars
\* a cycle in which the second callback threw has ended, and the next
\* notification is being processed
C26_ProcessedAfterThrow ==
    /\ lis[1] = "get"
    /\ isProcessing[1]
    /\ invoked[1] = Some(<<1, 3>>)

\* number of occurrences of the name in the tag lists of the bookmarks that
\* are not soft-deleted
RECURSIVE LiveOccurrences(_, _)
LiveOccurrences(bms, name) ==
    IF bms = <<>> THEN 0
    ELSE (IF Head(bms).deleted THEN 0
          ELSE Len(SelectSeq(Head(bms).tags, LAMBDA t : t = name)))
         + LiveOccurrences(Tail(bms), name)

\* C28: the Document a getData() returns after the repair pass of
\* initializeStorage has, for every tag, the number of occurrences of the
\* tag's name in the tag lists of the bookmarks that are not soft-deleted as
\* its count, and no tag of count zero.
C28_RecountSkipsDeleted ==
    \A i \in live :
        (res[i].out = "ok" /\ res[i].name = "getData" /\ res[i].via = "repair") =>
            LET d == res[i].ret[1]
            IN  \A k \in DOMAIN d.tags.v :
                    /\ d.tags.v[k].count = LiveOccurrences(d.bookmarks.v, d.tags.v[k].name)
                    /\ d.tags.v[k].count # 0

\* C29: when the storage.set of a mutating operation is rejected, the cache of
\* its Store Manager holds no Document, or the Document as getData() gave it
\* to the operation: not the operation's change.
C29_FailedWriteLeavesCache ==
    [][\A i \in live :
        (op[i].pc = "set" /\ op'[i].pc = "idle" /\ res'[i].out = "WriteError")
            => (cache'[i] = Null \/ cache'[i] = res'[i].pre)]_vars

\* the bookmark id is in the list and soft-deleted
SoftDeleted(d, id) ==
    /\ d.bookmarks.k = "array"
    /\ \E n \in 1..Len(d.bookmarks.v) : d.bookmarks.v[n].id = id /\ d.bookmarks.v[n].deleted

\* C30: a deleteBookmark(id) that finds the bookmark already soft-deleted
\* leaves the tag index as it found it: no count changed, no tag removed.
C30_SecondDeleteKeepsIndex ==
    \A i \in live :
        (res[i].out = "ok" /\ res[i].name = "deleteBookmark"
            /\ SoftDeleted(res[i].pre[1], res[i].a.id))
        => res[i].ret[1].tags = res[i].pre[1].tags

====
